---- MODULE Spec2Model ----
(***************************************************************************)
(* Model of the per-user agent/client cache (app/mcp_utils.py), the        *)
(* ad-platform gateway read operations (app/services/meta_service.py) and  *)
(* the integration routes that feed them (app/routes/meta_oauth.py,        *)
(* app/routes/settings.py).                                                *)
(***************************************************************************)
EXTENDS Integers, Sequences, FiniteSets, TLC

\* ---------------------------------------------------------------- bounds
MaxBuilds == 3
MaxTasks == 1

Users == {1, 2}
Tokens == {1, 2}

\* ------------------------------------------------------------- sentinels
NoToken == 0
NoHandle == [id |-> 0, token |-> NoToken]
NoError == "none"
NoTask == [user |-> 0, token |-> NoToken, evicted |-> FALSE]

VARIABLES
    agentCache,       \* _AGENT_CACHE: user -> agent handle
    tokenCache,       \* _ACCESS_TOKEN_CACHE: user -> token
    clientCache,      \* _CLIENT_CACHE: user -> client handle
    initTasks,        \* _AGENT_INITIALIZATION_TASKS: user -> task
    baseConfigCache,  \* _BASE_CONFIG_CACHE
    configFile,       \* what settings.MCP_CONFIG_PATH holds on disk
    tempFile,         \* content of ./mcp_temp.json
    pendingWarm,      \* prewarm_user_agent tasks scheduled on the loop, not yet run
    integrations,     \* rows of the integrations table
    nextId,           \* identity of the next handle constructed
    last,             \* the call that completed last and what it gave its caller
    gw,               \* the gateway read operation in flight
    messages,         \* committed rows of the chat_history table
    chatReq,          \* the chat request in flight, with its open transaction
    nextMsgId,        \* the chat_history id sequence
    clock,            \* the database clock
    resp,             \* the HTTP response given last
    authReq,          \* the request at the authentication middleware
    dash,             \* the _build_stats call made last
    calc,             \* the dashboard computation made last
    oauthReqs         \* the OAuth callbacks in flight

vars == <<agentCache, tokenCache, clientCache, initTasks, baseConfigCache,
          configFile, tempFile, pendingWarm, integrations, nextId, last, gw,
          messages, chatReq, nextMsgId, clock, resp, authReq, dash,
          calc, oauthReqs>>

chatVars == <<messages, chatReq, nextMsgId, clock>>
pureVars == <<authReq, dash, calc, oauthReqs>>
appVars == <<chatVars, resp, pureVars>>

cacheVars == <<agentCache, tokenCache, clientCache, initTasks, baseConfigCache,
               tempFile, nextId>>

\* ------------------------------------------------------ base configuration
\* A configuration document: servers says whether it has the nested
\* "mcpServers" dictionary, token is mcpServers.meta-ads.env.META_ACCESS_TOKEN.
NotLoaded == [loaded |-> FALSE, servers |-> FALSE, token |-> NoToken]
\* "servers": the file holds a document with an "mcpServers" dictionary;
\* "empty": it holds one without, or reading it raises and {} is cached.
ConfigFiles == {"empty", "servers"}

\* json.load of the file, {} when the read raises
LoadConfigFile(f) ==
    [loaded |-> TRUE, servers |-> (f = "servers"), token |-> NoToken]

\* the module-level cache after _get_base_config() has run
BaseConfigAfterGet(cache, f) ==
    IF cache.loaded THEN cache ELSE LoadConfigFile(f)

\* The document the caller holds after injecting the token into the
\* (shallow) copy returned by _get_base_config
InjectedConfig(cache, t) ==
    [loaded |-> TRUE, servers |-> TRUE, token |-> t]

\* The module-level cache after the caller injected the token into the copy:
\* dict.copy() is shallow, so a nested "mcpServers" dictionary is shared
\* with the cache and the assignment writes through; a top-level key added
\* to the copy is not seen by the cache.
BaseConfigAfterInject(cache, t) ==
    IF cache.servers THEN [cache EXCEPT !.token = t] ELSE cache

\* the token MCPClient.from_config_file reads out of a configuration file
ReadConfigToken(doc) == doc.token

\* --------------------------------------------------------------- cache hit
\* the comparison of the tokens inverted
AgentCacheHit_InvertedCompare(u, t) ==
    agentCache[u] # NoHandle /\ tokenCache[u] # t

\* the stored token not compared at all
AgentCacheHit_NoTokenCheck(u, t) ==
    agentCache[u] # NoHandle

AgentCacheHit(u, t) ==
    agentCache[u] # NoHandle /\ tokenCache[u] = t

ClientCacheHit(u, t) ==
    clientCache[u] # NoHandle /\ tokenCache[u] = t

\* ----------------------------------------------------- create_user_agent
\* Where construction inside the try block may raise: "write" is writing
\* ./mcp_temp.json, "build" is MCPClient.from_config_file, ChatBedrock or
\* MCPAgent, all of them after the file was written; "none": nothing raises.
AgentFailPoints == {"none", "write", "build"}

AgentError(cause) == [msg |-> "MCP agent failed to initialize", cause |-> cause]
RawError(cause) == [msg |-> cause, cause |-> cause]
OkError == [msg |-> NoError, cause |-> NoError]

\* What `last` records of a completed call: the arguments, the handle or the
\* error the caller got, and whether a handle was constructed.  evicted,
\* replaced and repeat are filled in for create_user_agent only.
Returned(op, u, t, h, e, built) ==
    [op |-> op, user |-> u, token |-> t, ret |-> h, err |-> e, built |-> built,
     evicted |-> FALSE, replaced |-> NoHandle, repeat |-> FALSE]

\* The record of a create_user_agent call: evicted says the call ran in a
\* warm-up that was scheduled before an eviction of the user, replaced is the
\* agent cached for the user when the call began, repeat says the call
\* directly follows a create_user_agent call with the same arguments that
\* returned a handle.
AgentReturned(op, u, t, h, e, built, evicted) ==
    [Returned(op, u, t, h, e, built) EXCEPT
        !.evicted = evicted,
        !.replaced = agentCache[u],
        !.repeat = (/\ last.op = "create_user_agent" /\ last.user = u
                    /\ last.token = t /\ last.ret # NoHandle)]

\* the agent cache and the token cache after the except block of
\* create_user_agent
AgentCacheAfterFailure(u) == [agentCache EXCEPT ![u] = NoHandle]

\* the except block forgetting the token mapping
TokenCacheAfterFailure_Kept(u) == tokenCache

TokenCacheAfterFailure(u) == [tokenCache EXCEPT ![u] = NoToken]

\* State change of one create_user_agent(u, t) call; fail is the point where
\* construction raises ("none": it does not).  The call has no suspension
\* point, so it runs to completion in one step of the event loop.
\* the token mapping kept from an earlier build
TokenCacheAfterBuild_FirstWins(u, t) ==
    IF tokenCache[u] # NoToken THEN tokenCache ELSE [tokenCache EXCEPT ![u] = t]

\* _ACCESS_TOKEN_CACHE[user_id] = access_token
TokenCacheAfterBuild(u, t) == [tokenCache EXCEPT ![u] = t]

\* the constructor reading what an earlier call left in the shared file
ConfigSeenByClient_Stale(written, previous) ==
    IF previous.loaded THEN previous ELSE written

\* What MCPClient.from_config_file("./mcp_temp.json") reads: the file as
\* this call wrote it.  Nothing is awaited between the write and the read,
\* so no other call runs in between.
ConfigSeenByClient(written, previous) == written

CreateUserAgentBody(op, u, t, fail, evicted) ==
    IF AgentCacheHit(u, t)
    THEN /\ last' = AgentReturned(op, u, t, agentCache[u], OkError, FALSE, evicted)
         /\ UNCHANGED cacheVars
    ELSE /\ nextId <= MaxBuilds
         /\ LET loaded == BaseConfigAfterGet(baseConfigCache, configFile)
                doc == InjectedConfig(loaded, t)
                written == IF fail = "write" THEN tempFile ELSE doc
                agent == [id |-> nextId,
                          token |-> ReadConfigToken(ConfigSeenByClient(written, tempFile))]
            IN /\ baseConfigCache' = BaseConfigAfterInject(loaded, t)
               /\ tempFile' = written
               /\ IF fail = "none"
                  THEN /\ agentCache' = [agentCache EXCEPT ![u] = agent]
                       /\ tokenCache' = TokenCacheAfterBuild(u, t)
                       /\ nextId' = nextId + 1
                       /\ last' = AgentReturned(op, u, t, agent, OkError, TRUE, evicted)
                  ELSE /\ agentCache' = AgentCacheAfterFailure(u)
                       /\ tokenCache' = TokenCacheAfterFailure(u)
                       /\ nextId' = nextId
                       /\ last' = AgentReturned(op, u, t, NoHandle, AgentError(fail),
                                                 FALSE, evicted)
               /\ UNCHANGED <<clientCache, initTasks>>

CreateUserAgent(u, t) ==
    /\ \E fail \in AgentFailPoints :
          CreateUserAgentBody("create_user_agent", u, t, fail, FALSE)
    /\ UNCHANGED <<configFile, pendingWarm, integrations, gw>>
    /\ UNCHANGED appVars

\* ---------------------------------------------------- create_user_client
ClientFailPoints == {"none", "write", "build"}

\* State change of one create_user_client(u, t) call.  There is no try block:
\* a failure leaves the caches as they were and the raw exception propagates.
\* The configuration goes through the per-user file ./mcp_temp_client_<u>.json,
\* written and read within the call.
CreateUserClientBody(u, t, fail) ==
    IF ClientCacheHit(u, t)
    THEN /\ last' = Returned("create_user_client", u, t, clientCache[u], OkError, FALSE)
         /\ UNCHANGED cacheVars
    ELSE /\ nextId <= MaxBuilds
         /\ LET loaded == BaseConfigAfterGet(baseConfigCache, configFile)
                doc == InjectedConfig(loaded, t)
                client == [id |-> nextId, token |-> ReadConfigToken(doc)]
            IN /\ baseConfigCache' = BaseConfigAfterInject(loaded, t)
               /\ IF fail = "none"
                  THEN /\ clientCache' = [clientCache EXCEPT ![u] = client]
                       /\ tokenCache' = [tokenCache EXCEPT ![u] = t]
                       /\ nextId' = nextId + 1
                       /\ last' = Returned("create_user_client", u, t, client, OkError, TRUE)
                  ELSE /\ UNCHANGED <<clientCache, tokenCache, nextId>>
                       /\ last' = Returned("create_user_client", u, t, NoHandle,
                                           RawError(fail), FALSE)
               /\ UNCHANGED <<agentCache, initTasks, tempFile>>

CreateUserClient(u, t) ==
    /\ \E fail \in ClientFailPoints : CreateUserClientBody(u, t, fail)
    /\ UNCHANGED <<configFile, pendingWarm, integrations, gw>>
    /\ UNCHANGED appVars

\* ----------------------------------------------------- prewarm_user_agent
\* asyncio.create_task(prewarm_user_agent(u, t)): the task is scheduled on
\* the event loop; nothing records it in _AGENT_INITIALIZATION_TASKS.
StartPrewarm(u, t) ==
    /\ Cardinality(pendingWarm) < MaxTasks
    /\ pendingWarm' = pendingWarm \cup {[user |-> u, token |-> t, evicted |-> FALSE]}
    /\ last' = Returned("start_prewarm", u, t, NoHandle, OkError, FALSE)
    /\ UNCHANGED <<cacheVars, configFile, integrations, gw>>
    /\ UNCHANGED appVars

\* The event loop runs a scheduled warm-up: create_user_agent, any exception
\* logged and swallowed.
RunPrewarm(k) ==
    /\ k \in pendingWarm
    /\ pendingWarm' = pendingWarm \ {k}
    /\ \E fail \in AgentFailPoints :
          CreateUserAgentBody("prewarm_user_agent", k.user, k.token, fail, k.evicted)
    /\ UNCHANGED <<configFile, integrations, gw>>
    /\ UNCHANGED appVars

\* ----------------------------------------------------- cleanup_user_cache
\* The warm-up tasks cleanup_user_cache cancels: the one registered for the
\* user in _AGENT_INITIALIZATION_TASKS, if any.
CancelledTasks(u) ==
    IF initTasks[u] # NoTask THEN {initTasks[u]} ELSE {}

CleanupUserCache(u) ==
    /\ agentCache' = [agentCache EXCEPT ![u] = NoHandle]
    /\ tokenCache' = [tokenCache EXCEPT ![u] = NoToken]
    /\ clientCache' = [clientCache EXCEPT ![u] = NoHandle]
    /\ initTasks' = [initTasks EXCEPT ![u] = NoTask]
    /\ pendingWarm' = {IF k.user = u THEN [k EXCEPT !.evicted = TRUE] ELSE k :
                          k \in pendingWarm \ CancelledTasks(u)}
    /\ last' = Returned("cleanup_user_cache", u, NoToken, NoHandle, OkError, FALSE)
    /\ UNCHANGED <<baseConfigCache, configFile, tempFile, integrations, nextId, gw>>
    /\ UNCHANGED appVars

\* ------------------------------------------------------ integration routes
NoAccount == 0
AccountIds == {1, 2}
\* the ad-account lists the platform may return: none, or the one account 1
AccountLists == {{}, {1}}

\* positions of the user's "meta" rows in the integrations table
RowsOf(u) == {i \in 1..Len(integrations) : integrations[i].user_id = u}

\* result.scalars().first()
FirstRow(u) == CHOOSE i \in RowsOf(u) : \A j \in RowsOf(u) : i <= j

RemoveAt(s, i) == [j \in 1..(Len(s) - 1) |-> IF j < i THEN s[j] ELSE s[j + 1]]

\* the response a route hands to the HTTP layer
NoResp == [route |-> "none", user |-> 0, session |-> 0, status |-> 0,
           success |-> FALSE, reply |-> "none", msgs |-> <<>>, total |-> 0,
           message_id |-> 0, user_message_id |-> 0, arg |-> 0, asked |-> 0]
Response(route, u, status) ==
    [NoResp EXCEPT !.route = route, !.user = u, !.status = status]

\* oauth_callback: upsert of the user's integration row with the new token
\* and the ad accounts fetched with it (accts: the ids in the fetched list)
OAuthCallback(u, t, accts) ==
    /\ integrations' =
          IF RowsOf(u) # {}
          THEN [integrations EXCEPT ![FirstRow(u)].access_token = t,
                                    ![FirstRow(u)].ad_accounts = accts]
          ELSE Append(integrations,
                      [user_id |-> u, access_token |-> t, ad_accounts |-> accts,
                       selected_ad_account |-> NoAccount])
    /\ last' = Returned("oauth_callback", u, t, NoHandle, OkError, FALSE)
    /\ resp' = Response("oauth_callback", u, 302)
    /\ UNCHANGED <<cacheVars, configFile, pendingWarm, gw, chatVars, pureVars>>

\* disconnect_meta: delete the user's integration row; the route does not
\* touch the in-memory caches
DisconnectMeta(u) ==
    /\ integrations' =
          IF RowsOf(u) # {} THEN RemoveAt(integrations, FirstRow(u)) ELSE integrations
    /\ UNCHANGED <<agentCache, tokenCache, clientCache>>
    /\ last' = Returned("disconnect_meta", u, NoToken, NoHandle, OkError, FALSE)
    /\ resp' = Response("disconnect_meta", u, 200)
    /\ UNCHANGED <<initTasks, baseConfigCache, tempFile, nextId,
                   configFile, pendingWarm, gw, chatVars, pureVars>>

\* ------------------------------------------------------- select_meta_account
NoIntegration == [user_id |-> 0, access_token |-> NoToken, ad_accounts |-> {},
                  selected_ad_account |-> NoAccount]

\* result.scalars().first() of the user's integration query, NoIntegration
\* when there is no row
IntegrationOf(u) ==
    IF RowsOf(u) = {} THEN NoIntegration ELSE integrations[FirstRow(u)]

\* The check select_meta_account makes on the requested account id: the id
\* is looked up only when the stored list is non-empty.
AccountAccepted(row, a) ==
    IF row.ad_accounts # {} THEN a \in row.ad_accounts ELSE TRUE

SelectMetaAccount(u, a) ==
    /\ IF RowsOf(u) = {}
       THEN /\ resp' = [Response("select_account", u, 404) EXCEPT !.arg = a]
            /\ UNCHANGED integrations
       ELSE IF ~AccountAccepted(IntegrationOf(u), a)
       THEN /\ resp' = [Response("select_account", u, 400) EXCEPT !.arg = a]
            /\ UNCHANGED integrations
       ELSE /\ integrations' =
                 [integrations EXCEPT ![FirstRow(u)].selected_ad_account = a]
            /\ resp' = [Response("select_account", u, 200) EXCEPT !.arg = a]
    /\ UNCHANGED <<cacheVars, configFile, pendingWarm, gw, last, chatVars, pureVars>>

\* ------------------------------------------------------------ chat history
Sessions == {1, 2}
MaxMsgs == 4

NoRow == [id |-> 0, user_id |-> 0, session_id |-> 0, message_type |-> "none",
          content |-> "none", error |-> "none", created_at |-> 0]

\* A chat_history row.  error is extra_data["error"] ("none": no such key);
\* created_at is the server default now(), the start time of the
\* transaction that inserts the row.
Row(id, u, s, type, content, error, at) ==
    [id |-> id, user_id |-> u, session_id |-> s, message_type |-> type,
     content |-> content, error |-> error, created_at |-> at]

NoSession == 0
\* a uuid4(): the session id made up when the request names none
FreshSession == 3

Reversed(q) == [i \in 1..Len(q) |-> q[Len(q) + 1 - i]]

\* ORDER BY created_at DESC: every arrangement of the rows with
\* non-increasing created_at; rows with equal created_at come in either
\* order, the query names no further sort key
DescOrders(S) ==
    {q \in [1..Cardinality(S) -> S] :
        /\ \A i, j \in 1..Cardinality(S) : i # j => q[i] # q[j]
        /\ \A i, j \in 1..Cardinality(S) : i < j => q[i].created_at >= q[j].created_at}

\* LIMIT n
Limited(q, n) == SubSeq(q, 1, IF n < Len(q) THEN n ELSE Len(q))

IdleChat == [pc |-> "idle", user |-> 0, session |-> 0, userMsg |-> NoRow,
             token |-> NoToken, account |-> NoAccount, txn |-> 0,
             asked |-> NoSession, context |-> <<>>]

\* session_id = req.session_id or uuid.uuid4()
SessionFor(s) == IF s = NoSession THEN FreshSession ELSE s

\* chat, up to the flush of the user's message: the row has its id and is
\* visible inside the request's transaction only
ChatBegin(u, s) ==
    /\ chatReq.pc \in {"idle", "done", "raised"}
    /\ nextMsgId + 1 <= MaxMsgs
    /\ chatReq' = [IdleChat EXCEPT
                      !.pc = "load", !.user = u, !.asked = s,
                      !.session = SessionFor(s), !.txn = clock,
                      !.userMsg = Row(nextMsgId, u, SessionFor(s), "user", "question",
                                      "none", clock)]
    /\ nextMsgId' = nextMsgId + 1
    /\ clock' = clock + 1
    /\ UNCHANGED <<cacheVars, configFile, pendingWarm, integrations, gw, last,
                   messages, resp, pureVars>>

GuidanceTag_NoAccountCheck(integration) ==
    IF integration = NoIntegration THEN "no_meta_integration" ELSE "none"

\* which canned guidance the request ends with, "none" when it goes on to
\* the agent
GuidanceTag(integration) ==
    IF integration = NoIntegration THEN "no_meta_integration"
    ELSE IF integration.selected_ad_account = NoAccount THEN "no_selected_ad_account"
    ELSE "none"

GuidanceText(tag) ==
    IF tag = "no_meta_integration" THEN "connect_meta_in_settings"
    ELSE "select_ad_account_in_settings"

\* only the assistant row reaching the table
CommitWithAssistant_WithoutUserRow(content, error) ==
    messages' = messages \cup
        {Row(nextMsgId, chatReq.user, chatReq.session, "assistant", content, error,
             chatReq.txn)}

\* the assistant row added and the transaction committed
CommitWithAssistant(content, error) ==
    messages' = messages \cup
        {chatReq.userMsg,
         Row(nextMsgId, chatReq.user, chatReq.session, "assistant", content, error,
             chatReq.txn)}

ChatResponse(success, reply) ==
    [Response("chat", chatReq.user, 200) EXCEPT
        !.success = success, !.reply = reply, !.session = chatReq.session,
        !.message_id = nextMsgId, !.user_message_id = chatReq.userMsg.id]

ContextWindow == 10

\* the rows the context query selects: the user's, of the request's
\* session, with an id below the one of the message just flushed
ContextRows_AnyOwner(u, s, before) ==
    {m \in messages : m.session_id = s /\ m.id < before}

ContextRows(u, s, before) ==
    {m \in messages : m.user_id = u /\ m.session_id = s /\ m.id < before}

\* chat, from the integration query to the guidance reply or to the
\* context query that precedes the agent
ChatLoadIntegration ==
    /\ chatReq.pc = "load"
    /\ LET integration == IntegrationOf(chatReq.user)
           tag == GuidanceTag(integration)
       IN IF tag # "none"
          THEN /\ CommitWithAssistant(GuidanceText(tag), tag)
               /\ nextMsgId' = nextMsgId + 1
               /\ resp' = ChatResponse(FALSE, GuidanceText(tag))
               /\ chatReq' = [chatReq EXCEPT !.pc = "done"]
          ELSE /\ \E q \in DescOrders(ContextRows(chatReq.user, chatReq.session,
                                                    chatReq.userMsg.id)) :
                     chatReq' = [chatReq EXCEPT
                                    !.pc = "agent",
                                    !.token = integration.access_token,
                                    !.account = integration.selected_ad_account,
                                    !.context = Reversed(Limited(q, ContextWindow))]
               /\ UNCHANGED <<messages, nextMsgId, resp>>
    /\ UNCHANGED <<cacheVars, configFile, pendingWarm, integrations, gw, last,
                   clock, pureVars>>

\* chat, agent = await create_user_agent(user_id, access_token): the call is
\* outside the try block, so its exception leaves the handler; get_db then
\* closes the session without a commit and the flushed row is rolled back.
ChatCreateAgent ==
    /\ chatReq.pc = "agent"
    /\ \E fail \in AgentFailPoints :
          /\ CreateUserAgentBody("create_user_agent", chatReq.user, chatReq.token,
                                 fail, FALSE)
          /\ IF ~AgentCacheHit(chatReq.user, chatReq.token) /\ fail # "none"
             THEN /\ chatReq' = [chatReq EXCEPT !.pc = "raised"]
                  /\ resp' = [Response("chat", chatReq.user, 500) EXCEPT
                                 !.reply = AgentError(fail).msg,
                                 !.session = chatReq.session,
                                 !.user_message_id = chatReq.userMsg.id]
             ELSE /\ chatReq' = [chatReq EXCEPT !.pc = "run"]
                  /\ UNCHANGED resp
    /\ UNCHANGED <<configFile, pendingWarm, integrations, gw, messages,
                   nextMsgId, clock, pureVars>>

\* chat, out = await agent.run(prompt) inside the try block, then the commit
ChatRun(ok) ==
    /\ chatReq.pc = "run"
    /\ IF ok
       THEN /\ CommitWithAssistant("reply", "none")
            /\ resp' = ChatResponse(TRUE, "reply")
       ELSE /\ CommitWithAssistant("error_reply", "agent_run_failed")
            /\ resp' = ChatResponse(FALSE, "error_reply")
    /\ nextMsgId' = nextMsgId + 1
    /\ chatReq' = [chatReq EXCEPT !.pc = "done"]
    /\ UNCHANGED <<cacheVars, configFile, pendingWarm, integrations, gw, last,
                   clock, pureVars>>

\* ------------------------------------------------- history and deletions
DefaultLimit == 50
Limits == {1, 2, DefaultLimit}

\* the rows the history query selects: the user's, of the one session when
\* a session id is given
HistoryRows(u, s) ==
    {m \in messages : m.user_id = u /\ (s # NoSession => m.session_id = s)}

GetChatHistory(u, s, limit) ==
    /\ \E q \in DescOrders(HistoryRows(u, s)) :
          LET msgs == Reversed(Limited(q, limit))
          IN resp' = [Response("history", u, 200) EXCEPT
                         !.msgs = msgs,
                         !.total = Len(msgs),
                         !.arg = limit,
                         !.asked = s,
                         !.session = IF s # NoSession THEN s
                                     ELSE IF msgs # <<>> THEN msgs[1].session_id
                                     ELSE FreshSession]
    /\ UNCHANGED <<cacheVars, configFile, pendingWarm, integrations, gw, last,
                   chatVars, pureVars>>

\* DISTINCT ON (session_id) over the user's rows ordered by session_id and
\* created_at DESC: the sets holding, for each session of the user, one of
\* its rows with the latest created_at
LatestPerSession(u) ==
    {S \in SUBSET {m \in messages : m.user_id = u} :
        /\ \A m \in messages : m.user_id = u =>
               \E x \in S : x.session_id = m.session_id /\ x.created_at >= m.created_at
        /\ \A x, y \in S : x.session_id = y.session_id => x = y}

\* get_chat_sessions: msgs holds, most recent first, the row each entry of
\* the answer is made from
GetChatSessions(u) ==
    /\ \E S \in LatestPerSession(u) : \E q \in DescOrders(S) :
          resp' = [Response("sessions", u, 200) EXCEPT !.msgs = q, !.total = Len(q)]
    /\ UNCHANGED <<cacheVars, configFile, pendingWarm, integrations, gw, last,
                   chatVars, pureVars>>

RowsToDelete_FirstOnly(u, s) ==
    {m \in messages : /\ m.user_id = u /\ m.session_id = s
                      /\ \A o \in messages :
                            (o.user_id = u /\ o.session_id = s) => m.id <= o.id}

\* the rows the DELETE statement of delete_chat_session matches
RowsToDelete(u, s) ==
    {m \in messages : m.user_id = u /\ m.session_id = s}

DeleteChatSession(u, s) ==
    /\ IF \E m \in messages : m.user_id = u /\ m.session_id = s
       THEN /\ messages' = messages \ RowsToDelete(u, s)
            /\ resp' = [Response("delete_session", u, 200) EXCEPT !.session = s]
       ELSE /\ resp' = [Response("delete_session", u, 404) EXCEPT !.session = s]
            /\ UNCHANGED messages
    /\ UNCHANGED <<cacheVars, configFile, pendingWarm, integrations, gw, last,
                   chatReq, nextMsgId, clock, pureVars>>

OwnedMessage_AnyOwner(u, id) ==
    {m \in messages : m.id = id}

\* the row delete_chat_message looks up: by id and by owner
OwnedMessage(u, id) ==
    {m \in messages : m.id = id /\ m.user_id = u}

DeleteChatMessage(u, id) ==
    /\ IF OwnedMessage(u, id) # {}
       THEN /\ messages' = messages \ OwnedMessage(u, id)
            /\ resp' = [Response("delete_message", u, 200) EXCEPT !.arg = id]
       ELSE /\ resp' = [Response("delete_message", u, 404) EXCEPT !.arg = id]
            /\ UNCHANGED messages
    /\ UNCHANGED <<cacheVars, configFile, pendingWarm, integrations, gw, last,
                   chatReq, nextMsgId, clock, pureVars>>

DeleteAllChats(u) ==
    /\ messages' = {m \in messages : m.user_id # u}
    /\ resp' = Response("delete_all", u, 200)
    /\ UNCHANGED <<cacheVars, configFile, pendingWarm, integrations, gw, last,
                   chatReq, nextMsgId, clock, pureVars>>

\* ------------------------------------------- authentication middleware
Methods == {"GET", "POST", "OPTIONS"}

\* request paths, as their segments
Paths == {<<"api", "chat">>,
          <<"api", "auth", "login">>,
          <<"api", "auth", "profile">>,
          <<"api", "meta", "oauth", "callback">>,
          <<"api", "meta", "test", "ad-accounts">>,
          <<"api", "settings", "meta", "oauth", "start">>,
          <<"docs">>}

public_paths == {<<"openapi.json">>, <<"docs">>, <<"redoc">>,
                 <<"api", "auth", "signup">>, <<"api", "auth", "login">>,
                 <<"api", "meta", "oauth">>, <<"favicon.ico">>}

StartsWith(p, q) == Len(q) <= Len(p) /\ SubSeq(p, 1, Len(q)) = q

IsPublic(path) == \E q \in public_paths : StartsWith(path, q)

\* Authorization header: absent, of another scheme, or "Bearer <token>"
Headers == {"missing", "basic", "bearer"}

\* A token as jwt.decode sees it: sig "ok" decodes, "bad" and "expired"
\* raise JWTError; id is the "id" claim (0: absent), sub the "sub" claim.
NoJwt == [sig |-> "none", id |-> 0, sub |-> "absent"]
Jwts == [sig : {"ok", "bad", "expired"}, id : {0} \cup Users,
         sub : {"absent", "1", "2", "abc"}]

\* user_id = payload.get("id") or payload.get("sub"); `not user_id`
NoIdentity(tok) == tok.id = 0 /\ tok.sub = "absent"

\* whether int(user_id) accepts the claim
IsNumeric(tok) == tok.id # 0 \/ tok.sub \in {"1", "2"}

\* int(user_id), for the claims it accepts
IntOf(tok) == IF tok.id # 0 THEN tok.id ELSE IF tok.sub = "1" THEN 1 ELSE 2

Answered(status) ==
    [kind |-> "response", status |-> status, user_id |-> 0, exc |-> "none"]
Raised(exc) == [kind |-> "raised", status |-> 0, user_id |-> 0, exc |-> exc]
CallNext(uid) == [kind |-> "call_next", status |-> 0, user_id |-> uid, exc |-> "none"]

\* the try block of dispatch: only JWTError is caught
DecodeOutcome(tok) ==
    IF tok.sig # "ok" THEN Answered(401)
    ELSE IF NoIdentity(tok) THEN Raised("HTTPException")
    ELSE IF ~IsNumeric(tok) THEN Raised("ValueError")
    ELSE CallNext(IntOf(tok))

DispatchOutcome(method, path, header, tok) ==
    IF method = "OPTIONS" THEN CallNext(0)
    ELSE IF IsPublic(path) THEN CallNext(0)
    ELSE IF header # "bearer" THEN Answered(401)
    ELSE DecodeOutcome(tok)

NoAuthReq == [pc |-> "none", method |-> "none", path |-> <<>>, header |-> "missing",
              token |-> NoJwt, out |-> Answered(0)]

\* AuthMiddleware.dispatch on one request
Dispatch(method, path, header, tok) ==
    /\ authReq' = [pc |-> "done", method |-> method, path |-> path,
                   header |-> header, token |-> tok,
                   out |-> DispatchOutcome(method, path, header, tok)]
    /\ UNCHANGED <<cacheVars, configFile, pendingWarm, integrations, gw, last,
                   chatVars, resp, dash, calc, oauthReqs>>

\* ------------------------------------------------------- dashboard stats
\* where the try block of _build_stats raises, "none" when it runs through
StatsFailPoints == {"none", "insights", "budgets", "roas"}

\* the local names the branch taken when Meta is not connected assigns
DefaultAssigns ==
    {"spend_value", "campaigns_value", "impressions_value", "reach_value",
     "daily_budget_value", "roi_value", "conversions_value", "spend_change",
     "campaigns_change", "roi_change", "conversions_change"}

\* the names the try block has assigned when it raises at `fail`
TryAssigns(fail) ==
    IF fail = "insights" THEN {}
    ELSE IF fail = "budgets"
    THEN {"spend_value", "impressions_value", "reach_value", "campaigns_value"}
    ELSE IF fail = "roas"
    THEN {"spend_value", "impressions_value", "reach_value", "campaigns_value",
          "daily_budget_value", "conversions_value"}
    ELSE {"spend_value", "impressions_value", "reach_value", "campaigns_value",
          "daily_budget_value", "conversions_value", "roas_value",
          "spend_change", "campaigns_change", "roi_change", "conversions_change"}

\* the names the except branch assigns
ExceptAssigns ==
    {"spend_value", "campaigns_value", "impressions_value", "reach_value",
     "daily_budget_value", "roas_value", "conversions_value", "spend_change",
     "campaigns_change", "conversions_change"}

\* the names the return statement reads
ReturnReads ==
    {"spend_value", "spend_change", "campaigns_value", "campaigns_change",
     "impressions_value", "reach_value", "daily_budget_value", "roas_value",
     "conversions_value", "conversions_change"}

StatCards ==
    <<"spend", "campaigns", "impressions", "reach", "daily_budget", "roas",
      "conversions">>

\* the branch _build_stats takes
StatsBranch(meta_connected, access_token, account_id, user_id, fail) ==
    IF ~meta_connected \/ access_token = NoToken \/ account_id = NoAccount
          \/ user_id = 0
    THEN "default"
    ELSE IF fail = "none" THEN "try" ELSE "except"

AssignedAtReturn(branch, fail) ==
    IF branch = "default" THEN DefaultAssigns
    ELSE IF branch = "try" THEN TryAssigns("none")
    ELSE TryAssigns(fail) \cup ExceptAssigns

\* _build_stats: the return statement reads each name; a name no branch
\* assigned raises UnboundLocalError
BuildStats(meta_connected, access_token, account_id, user_id, fail) ==
    LET branch == StatsBranch(meta_connected, access_token, account_id, user_id, fail)
        unbound == ReturnReads \ AssignedAtReturn(branch, fail)
    IN [branch |-> branch,
        out |-> IF unbound = {} THEN "returned" ELSE "raised",
        unbound |-> unbound,
        cards |-> IF unbound = {} THEN StatCards ELSE <<>>]

NoDash == [pc |-> "none", user |-> 0, meta_connected |-> FALSE,
           account |-> NoAccount, fail |-> "none",
           stats |-> [branch |-> "none", out |-> "none", unbound |-> {},
                      cards |-> <<>>]]

\* get_dashboard_overview, up to its call of _build_stats
GetDashboardOverview(u, fail) ==
    /\ LET integration == IntegrationOf(u)
           meta_connected == integration # NoIntegration
       IN dash' = [pc |-> "done", user |-> u, meta_connected |-> meta_connected,
                   account |-> integration.selected_ad_account, fail |-> fail,
                   stats |-> BuildStats(meta_connected, integration.access_token,
                                        integration.selected_ad_account, u, fail)]
    /\ UNCHANGED <<cacheVars, configFile, pendingWarm, integrations, gw, last,
                   chatVars, resp, authReq, calc, oauthReqs>>

\* ------------------------------------------------- dashboard arithmetic
MaxAmount == 12
\* the amounts of the repository's own ROI test cases
ExampleAmounts == {500, 800, 1000, 1500, 2000}
Amounts == (0..MaxAmount) \cup ExampleAmounts

\* The integers a format of n/d with no further digits can give (n >= 0,
\* d > 0): the nearest one; when n/d lies exactly between two integers the
\* binary float computed for it decides, and either neighbour can come out.
Rounded(n, d) ==
    IF 2 * (n % d) < d THEN {n \div d}
    ELSE IF 2 * (n % d) > d THEN {(n \div d) + 1}
    ELSE {n \div d, (n \div d) + 1}

\* the sign a ROI text starts with, n being the sign-carrying numerator
\* revenue - spend
RoiSign_StrictlyPositive(n) == IF n > 0 THEN "+" ELSE "-"

\* "+" from the `sign` the function prepends, "-" from the number format
RoiSign(n) == IF n >= 0 THEN "+" ELSE "-"

Magnitude(n) == IF n >= 0 THEN n ELSE 0 - n

\* the texts _calculate_roi can return, as sign and digits before the "%"
CalculateRoi(spend, revenue) ==
    IF spend = 0 THEN {[sign |-> "", digits |-> 0]}
    ELSE {[sign |-> RoiSign(revenue - spend), digits |-> q] :
             q \in Rounded(Magnitude((revenue - spend) * 100), spend)}

\* the texts _calculate_roas can return, as the number of hundredths in
\* front of the "x" ("0.00x" is 0, "1.25x" is 125)
CalculateRoas(spend, revenue) ==
    IF spend = 0 THEN {0} ELSE Rounded(revenue * 100, spend)

NoCalc == [op |-> "none", spend |-> 0, revenue |-> 0,
           roi |-> [sign |-> "", digits |-> 0], roas |-> 0,
           source |-> "none", tier |-> "none",
           campaigns |-> <<>>, budgets |-> <<>>, count |-> 0, total |-> 0]

\* one evaluation of _calculate_roi and _calculate_roas
CalculateReturns(spend, revenue) ==
    /\ \E roi \in CalculateRoi(spend, revenue), roas \in CalculateRoas(spend, revenue) :
          calc' = [NoCalc EXCEPT !.op = "calculate", !.spend = spend,
                                 !.revenue = revenue, !.roi = roi, !.roas = roas]
    /\ UNCHANGED <<cacheVars, configFile, pendingWarm, integrations, gw, last,
                   chatVars, resp, authReq, dash, oauthReqs>>

\* ROAS values, in hundredths, that an insight's purchase_roas may carry
RoasValues == {0, 40, 99, 100, 199, 200, 210, 299, 300, 350}

PerformanceTier_ExclusiveBounds(roas_num) ==
    IF roas_num > 300 THEN "excellent"
    ELSE IF roas_num > 200 THEN "good"
    ELSE IF roas_num > 100 THEN "average"
    ELSE "poor"

\* the if/elif chain of _build_campaigns on roas_num, in hundredths
PerformanceTier(roas_num) ==
    IF roas_num >= 300 THEN "excellent"
    ELSE IF roas_num >= 200 THEN "good"
    ELSE IF roas_num >= 100 THEN "average"
    ELSE "poor"

\* roas_num when the insight has no purchase_roas: the number read back
\* from the text of _calculate_roas, 0 for spend 0 and for "0.00x"
FallbackRoas(spend, revenue) ==
    IF spend > 0 THEN CalculateRoas(spend, revenue) ELSE {0}

\* the performance of one campaign card, from Meta's own ROAS
BucketFromMeta(value) ==
    /\ calc' = [NoCalc EXCEPT !.op = "bucket", !.source = "purchase_roas",
                              !.roas = value, !.tier = PerformanceTier(value)]
    /\ UNCHANGED <<cacheVars, configFile, pendingWarm, integrations, gw, last,
                   chatVars, resp, authReq, dash, oauthReqs>>

\* the performance of one campaign card, from spend and revenue
BucketFromFallback(spend, revenue) ==
    /\ \E roas_num \in FallbackRoas(spend, revenue) :
          calc' = [NoCalc EXCEPT !.op = "bucket", !.source = "fallback",
                                 !.spend = spend, !.revenue = revenue,
                                 !.roas = roas_num, !.tier = PerformanceTier(roas_num)]
    /\ UNCHANGED <<cacheVars, configFile, pendingWarm, integrations, gw, last,
                   chatVars, resp, authReq, dash, oauthReqs>>

\* ------------------------------------------------ dashboard aggregation
CampaignIds == {1, 2}
Statuses == {"ACTIVE", "active", "PAUSED"}
\* daily budgets as the platform reports them, in cents
BudgetCents == {0, 100, 250}
NoKey == 0

\* c.get("status", "").upper()
Upper(status) == IF status = "active" THEN "ACTIVE" ELSE status

\* a record of get_campaign_budgets: a campaign object with the fields the
\* call asks for, its identifier under "id"
BudgetRecord(c, cents) == [id |-> c, daily_budget |-> cents]

\* budget_info.get("campaign_id")
CampaignIdOf(budget_info) ==
    IF "campaign_id" \in DOMAIN budget_info THEN budget_info.campaign_id ELSE NoKey

\* [c.get("id") for c in active_campaigns]
ActiveCampaignIds(campaigns) ==
    {c \in DOMAIN campaigns : Upper(campaigns[c]) = "ACTIVE"}

RECURSIVE SumCents(_)
SumCents(records) ==
    IF records = {} THEN 0
    ELSE LET r == CHOOSE x \in records : TRUE
         IN r.daily_budget + SumCents(records \ {r})

\* total_daily_budget of _build_stats, in cents
TotalDailyBudget(campaigns, budget_records) ==
    SumCents({b \in budget_records : CampaignIdOf(b) \in ActiveCampaignIds(campaigns)})

\* the counting and summing part of _build_stats; campaigns maps each
\* campaign id to its status, budgets each campaign id to its daily budget
AggregateStats(campaigns, budgets) ==
    /\ calc' = [NoCalc EXCEPT
                   !.op = "aggregate", !.campaigns = campaigns, !.budgets = budgets,
                   !.count = Cardinality(ActiveCampaignIds(campaigns)),
                   !.total = TotalDailyBudget(campaigns,
                                {BudgetRecord(c, budgets[c]) : c \in DOMAIN budgets})]
    /\ UNCHANGED <<cacheVars, configFile, pendingWarm, integrations, gw, last,
                   chatVars, resp, authReq, dash, oauthReqs>>

\* ---------------------------------------------- concurrent OAuth callbacks
MaxCallbacks == 2
Callbacks == 1..MaxCallbacks
NoRowFound == 0
IdleCallback == [pc |-> "idle", user |-> 0, token |-> NoToken, accts |-> {},
                 found |-> NoRowFound]

\* oauth_callback of request k, up to the query for the user's row: the
\* token and the ad accounts are fetched, the row, if any, is loaded
OAuthSelect(k, u, t, accts) ==
    /\ oauthReqs[k].pc = "idle"
    /\ oauthReqs' = [oauthReqs EXCEPT ![k] =
                        [pc |-> "selected", user |-> u, token |-> t, accts |-> accts,
                         found |-> IF RowsOf(u) # {} THEN FirstRow(u) ELSE NoRowFound]]
    /\ UNCHANGED <<cacheVars, configFile, pendingWarm, integrations, gw, last,
                   chatVars, resp, authReq, dash, calc>>

\* the table after the commit of request r: the loaded row updated, or a
\* new row added when the query had found none
IntegrationsAfterCommit(r) ==
    IF r.found # NoRowFound
    THEN [integrations EXCEPT ![r.found].access_token = r.token,
                              ![r.found].ad_accounts = r.accts]
    ELSE Append(integrations,
                [user_id |-> r.user, access_token |-> r.token,
                 ad_accounts |-> r.accts, selected_ad_account |-> NoAccount])

\* oauth_callback of request k, from the update or insert to the redirect
OAuthCommit(k) ==
    /\ oauthReqs[k].pc = "selected"
    /\ integrations' = IntegrationsAfterCommit(oauthReqs[k])
    /\ oauthReqs' = [oauthReqs EXCEPT ![k] = IdleCallback]
    /\ last' = Returned("oauth_callback", oauthReqs[k].user, oauthReqs[k].token,
                        NoHandle, OkError, FALSE)
    /\ resp' = Response("oauth_callback", oauthReqs[k].user, 302)
    /\ UNCHANGED <<cacheVars, configFile, pendingWarm, gw, chatVars,
                   authReq, dash, calc>>

\* ------------------------------------------------- ad-platform gateway
GatewayOps == {"get_campaigns", "get_account_insights",
               "get_campaign_insights", "get_campaign_budgets"}

\* the JSON type the operation hands back: a list, or a dict for the single record
Expected(op) == IF op = "get_account_insights" THEN "dict" ELSE "list"

NoValue == [type |-> "none", data |-> 0, src |-> "none"]
Value(type, data, src) == [type |-> type, data |-> data, src |-> src]
\* the literal [] or {} the code returns
EmptyDefault(op) == Value(Expected(op), 0, "default")

\* What client.call_tool may hand back.  truthy/isDict: Python truthiness and
\* isinstance(result, dict); ctype: type of result["content"] ("missing": no
\* such key); jtype: what json.loads of a string content yields ("invalid":
\* it raises); data: the payload (0 is the empty one).
Shape(truthy, isDict, ctype, jtype, data) ==
    [truthy |-> truthy, isDict |-> isDict, ctype |-> ctype, jtype |-> jtype, data |-> data]

ToolResults ==
    {Shape(FALSE, FALSE, "na", "na", 0),      \* None
     Shape(FALSE, TRUE, "missing", "na", 0),  \* {}
     Shape(TRUE, FALSE, "na", "na", 0)}       \* a non-dict object
    \cup {Shape(TRUE, TRUE, c, "na", d) : c \in {"list", "dict"}, d \in {0, 1}}
    \cup {Shape(TRUE, TRUE, c, "na", 0) : c \in {"missing", "other"}}
    \cup {Shape(TRUE, TRUE, "str", j, d) : j \in {"list", "dict"}, d \in {0, 1}}
    \cup {Shape(TRUE, TRUE, "str", j, 0) : j \in {"invalid", "other"}}

\* What the direct HTTP call may give: raise (ok = FALSE: network error,
\* raise_for_status, bad JSON) or a JSON body whose "data" list has n entries
\* (hasData = FALSE: no "data" key).
HttpResponses ==
    {[ok |-> FALSE, hasData |-> FALSE, n |-> 0]}
    \cup {[ok |-> TRUE, hasData |-> FALSE, n |-> 0]}
    \cup {[ok |-> TRUE, hasData |-> TRUE, n |-> n] : n \in {0, 1}}

\* data.get("data", []) / insights_data[0] if insights_data else {}
HttpValue(op, h) ==
    IF h.hasData /\ h.n > 0 THEN Value(Expected(op), h.n, "http")
    ELSE IF op = "get_account_insights" THEN Value("dict", 0, "default")
    ELSE IF h.hasData THEN Value("list", 0, "http")
    ELSE Value("list", 0, "default")

Return(v) == [kind |-> "return", value |-> v]
FallThrough == [kind |-> "fallthrough", value |-> NoValue]

\* What the tool path of the operation makes of a call_tool result that is
\* not usable: get_campaigns returns [] from inside its try block, the other
\* three leave the if/try and go on to the code after it.
UnusableResult(op) ==
    IF op = "get_campaigns" THEN Return(EmptyDefault(op)) ELSE FallThrough

\* A string content that json.loads parses to the wrong type
WrongParsedType(op) == Return(EmptyDefault(op))

\* The tool path's handling of the call_tool result r
ToolOutcome(op, r) ==
    IF r.truthy /\ r.isDict
    THEN IF r.ctype = "missing" THEN Return(EmptyDefault(op))
         ELSE IF r.ctype = Expected(op) THEN Return(Value(r.ctype, r.data, "tool"))
         ELSE IF r.ctype = "str"
              THEN IF r.jtype = "invalid" THEN UnusableResult(op)
                   ELSE IF r.jtype = Expected(op)
                        THEN Return(Value(r.jtype, r.data, "tool"))
                        ELSE WrongParsedType(op)
              ELSE UnusableResult(op)
    ELSE UnusableResult(op)

\* every operation trying the direct HTTP call first
FirstStage_HttpFirst(op) == "http"

\* the stage an invocation starts with
FirstStage(op) == IF op = "get_campaign_insights" THEN "http" ELSE "client"

\* the tool path's failure ending the operation
StageAfterTool_GiveUp(op) == "done"

\* the stage after the tool path raised or fell through
StageAfterTool(op) == IF op = "get_campaign_insights" THEN "done" ELSE "http"

\* the HTTP call's exception leaving the operation
StageAfterHttpError_Propagates(op) == "raised"

\* the stage after the direct HTTP call raised
StageAfterHttpError(op) == IF op = "get_campaign_insights" THEN "client" ELSE "done"

IdleGw == [op |-> "none", user |-> 0, token |-> NoToken, pc |-> "idle",
           attempts |-> <<>>, toolThrew |-> FALSE, toolResult |-> "none",
           httpThrew |-> FALSE, ret |-> NoValue]

GwStart(op, u, t) ==
    /\ gw.pc \in {"idle", "done"}
    /\ gw' = [IdleGw EXCEPT !.op = op, !.user = u, !.token = t, !.pc = FirstStage(op)]
    /\ last' = Returned(op, u, t, NoHandle, OkError, FALSE)
    /\ UNCHANGED <<cacheVars, configFile, pendingWarm, integrations>>
    /\ UNCHANGED appVars

\* the invocation leaves the tool path without a value
LeaveToolPath(g, threw) ==
    LET next == StageAfterTool(g.op)
    IN [g EXCEPT !.pc = next,
                 !.toolThrew = threw,
                 !.ret = IF next = "done" THEN EmptyDefault(g.op) ELSE NoValue]

\* client = await create_user_client(user_id, access_token)
GwCreateClient ==
    /\ gw.pc = "client"
    /\ \E fail \in ClientFailPoints :
          /\ CreateUserClientBody(gw.user, gw.token, fail)
          /\ LET g == [gw EXCEPT !.attempts = Append(@, "tool")]
             IN gw' = IF fail = "none" THEN [g EXCEPT !.pc = "call"]
                      ELSE LeaveToolPath(g, TRUE)
    /\ UNCHANGED <<configFile, pendingWarm, integrations>>
    /\ UNCHANGED appVars

\* result = await client.call_tool(...) raises
GwCallToolRaises ==
    /\ gw.pc = "call"
    /\ gw' = LeaveToolPath(gw, TRUE)
    /\ UNCHANGED <<cacheVars, configFile, pendingWarm, integrations, last>>
    /\ UNCHANGED appVars

\* how the claim's words classify a call_tool result
ResultClass(op, r) ==
    IF ~r.truthy THEN "empty"
    ELSE IF ~r.isDict THEN "not_dict"
    ELSE IF r.ctype = "missing" THEN "no_content"
    ELSE IF r.ctype = Expected(op) THEN "good"
    ELSE IF r.ctype # "str" THEN "wrong_content_type"
    ELSE IF r.jtype = "invalid" THEN "unparseable"
    ELSE IF r.jtype = Expected(op) THEN "good"
    ELSE "wrong_parsed_type"

\* result = await client.call_tool(...) returns r
GwCallToolReturns(r) ==
    /\ gw.pc = "call"
    /\ LET out == ToolOutcome(gw.op, r)
           g == [gw EXCEPT !.toolResult = ResultClass(gw.op, r)]
       IN gw' = IF out.kind = "return"
                THEN [g EXCEPT !.pc = "done", !.ret = out.value]
                ELSE LeaveToolPath(g, FALSE)
    /\ UNCHANGED <<cacheVars, configFile, pendingWarm, integrations, last>>
    /\ UNCHANGED appVars

\* the direct HTTP call to the platform
GwHttp(h) ==
    /\ gw.pc = "http"
    /\ LET g == [gw EXCEPT !.attempts = Append(@, "http")]
       IN gw' = IF h.ok
                THEN [g EXCEPT !.pc = "done", !.ret = HttpValue(g.op, h)]
                ELSE LET next == StageAfterHttpError(g.op)
                     IN [g EXCEPT !.pc = next,
                                  !.httpThrew = TRUE,
                                  !.ret = IF next = "done" THEN EmptyDefault(g.op)
                                          ELSE NoValue]
    /\ UNCHANGED <<cacheVars, configFile, pendingWarm, integrations, last>>
    /\ UNCHANGED appVars

\* ------------------------------------------------------------------- Init
Init ==
    /\ agentCache = [u \in Users |-> NoHandle]
    /\ tokenCache = [u \in Users |-> NoToken]
    /\ clientCache = [u \in Users |-> NoHandle]
    /\ initTasks = [u \in Users |-> NoTask]
    /\ baseConfigCache = NotLoaded
    /\ configFile \in ConfigFiles
    /\ tempFile = NotLoaded
    /\ pendingWarm = {}
    /\ integrations = <<>>
    /\ nextId = 1
    /\ last = Returned("none", 0, NoToken, NoHandle, OkError, FALSE)
    /\ gw = IdleGw
    /\ messages = {}
    /\ chatReq = IdleChat
    /\ nextMsgId = 1
    /\ clock = 1
    /\ resp = NoResp
    /\ authReq = NoAuthReq
    /\ dash = NoDash
    /\ calc = NoCalc
    /\ oauthReqs = [k \in Callbacks |-> IdleCallback]

\* ------------------------------------------- the cache and its callers
NextCache ==
    \/ \E u \in Users, t \in Tokens : CreateUserAgent(u, t)
    \/ \E u \in Users, t \in Tokens : CreateUserClient(u, t)
    \/ \E u \in Users : CleanupUserCache(u)

SpecCache == Init /\ [][NextCache]_vars

\* ------------------------------------- background warm-up and eviction
NextWarmup ==
    \/ \E u \in Users, t \in Tokens : StartPrewarm(u, t)
    \/ \E k \in pendingWarm : RunPrewarm(k)
    \/ \E u \in Users : CleanupUserCache(u)
    \/ \E u \in Users, t \in Tokens : CreateUserAgent(u, t)

SpecWarmup == Init /\ [][NextWarmup]_vars

\* ------------------------- the integration routes and the cache they feed
NextRoutes ==
    \/ \E u \in Users, t \in Tokens, accts \in {{1}} : OAuthCallback(u, t, accts)
    \/ \E u \in Users : DisconnectMeta(u)
    \/ \E u \in Users, t \in Tokens : CreateUserAgent(u, t)
    \/ \E u \in Users, t \in Tokens : CreateUserClient(u, t)

SpecRoutes == Init /\ [][NextRoutes]_vars

\* ------------------------------------------------ the gateway operations
NextGateway ==
    \/ \E op \in GatewayOps, u \in Users, t \in Tokens : GwStart(op, u, t)
    \/ GwCreateClient
    \/ GwCallToolRaises
    \/ \E r \in ToolResults : GwCallToolReturns(r)
    \/ \E h \in HttpResponses : GwHttp(h)

SpecGateway == Init /\ [][NextGateway]_vars

\* =================================================================== claims

\* a step in which create_user_agent(u, t) was called and gave control back
AgentCallStep(u, t) ==
    /\ last'.op = "create_user_agent" /\ last'.user = u /\ last'.token = t
    /\ <<cacheVars, last>>' # <<cacheVars, last>>

\* C1: every handle create_user_agent(user_id, access_token) returns was
\* constructed with exactly that access_token.
C1_AgentBuiltWithPassedToken ==
    (last.op = "create_user_agent" /\ last.ret # NoHandle)
        => last.ret.token = last.token

\* C2: every handle create_user_client(user_id, access_token) returns was
\* constructed with exactly that access_token.
C2_ClientBuiltWithPassedToken ==
    (last.op = "create_user_client" /\ last.ret # NoHandle)
        => last.ret.token = last.token

\* C3: a create_user_agent(u, t) call that directly follows a call with the
\* same (u, t) that returned a handle returns that same handle and rebuilds
\* nothing: no config write, no new handle, all caches as they were.
C3_SecondCallReusesHandle ==
    [][\A u \in Users, t \in Tokens :
          (/\ last.op = "create_user_agent" /\ last.user = u /\ last.token = t
           /\ last.ret # NoHandle
           /\ AgentCallStep(u, t))
          => (/\ last'.ret = last.ret
              /\ ~last'.built
              /\ last'.err = OkError
              /\ UNCHANGED cacheVars)]_vars

\* a second call in a row was answered from the cache
C3_Witness ==
    /\ last.op = "create_user_agent" /\ last.repeat
    /\ ~last.built /\ last.ret # NoHandle
    /\ last.ret = agentCache[last.user] /\ tokenCache[last.user] = last.token

\* C4: create_user_agent(u, t) for a user with a cached agent and a stored
\* token other than t builds a new handle and drops the old mapping: when the
\* call returns, the agent cache holds the new handle (built with t, never
\* seen before), the token cache holds t, and the old handle is no longer in
\* the cache; when construction raises instead, the old handle is gone too.
C4_TokenChangeRebuilds ==
    [][\A u \in Users, t \in Tokens :
          (/\ agentCache[u] # NoHandle /\ tokenCache[u] # t
           /\ AgentCallStep(u, t))
          => /\ agentCache'[u] # agentCache[u]
             /\ clientCache' = clientCache
             /\ last'.err = OkError =>
                   /\ last'.built
                   /\ last'.ret = agentCache'[u]
                   /\ agentCache'[u].id = nextId
                   /\ agentCache'[u].token = t
                   /\ tokenCache'[u] = t]_vars

\* a rebuild replaced a cached agent of another token
C4_Witness ==
    /\ last.op = "create_user_agent" /\ last.built
    /\ last.replaced # NoHandle /\ last.replaced.token # last.token
    /\ agentCache[last.user] = last.ret /\ tokenCache[last.user] = last.token

\* C5: when construction raises inside create_user_agent, the caller gets the
\* single error "MCP agent failed to initialize: ..." and neither the agent
\* cache nor the token cache holds an entry for the user.
C5_FailureLeavesNoEntry ==
    (last.op = "create_user_agent" /\ last.err # OkError)
        => /\ last.err.msg = "MCP agent failed to initialize"
           /\ last.ret = NoHandle
           /\ agentCache[last.user] = NoHandle
           /\ tokenCache[last.user] = NoToken

\* construction raised for a user who had entries before the call
C5_Witness ==
    /\ last.op = "create_user_agent" /\ last.err.cause = "build"
    /\ last.replaced # NoHandle
    /\ agentCache[last.user] = NoHandle /\ tokenCache[last.user] = NoToken

\* C6: no warm-up started before cleanup_user_cache(u) returned populates
\* the agent or token cache of u afterwards.
C6_EvictionCancelsWarmup ==
    ~(last.op = "prewarm_user_agent" /\ last.evicted /\ last.built)

\* C7: after disconnect_meta completes for a user, the agent, client and
\* token caches hold no entry for that user.
C7_DisconnectEvicts ==
    last.op = "disconnect_meta"
        => /\ agentCache[last.user] = NoHandle
           /\ clientCache[last.user] = NoHandle
           /\ tokenCache[last.user] = NoToken

\* position of the first attempt of the given kind, 0 when there is none
FirstAttempt(kind) ==
    IF \E i \in 1..Len(gw.attempts) : gw.attempts[i] = kind
    THEN CHOOSE i \in 1..Len(gw.attempts) :
            /\ gw.attempts[i] = kind
            /\ \A j \in 1..(i - 1) : gw.attempts[j] # kind
    ELSE 0

C9_HttpTriedAfterToolThrows ==
    (gw.pc = "done" /\ gw.toolThrew) => FirstAttempt("http") > 0

\* the tool path threw and the value returned came from the HTTP call
C9_Witness ==
    /\ gw.pc = "done" /\ gw.toolThrew /\ gw.ret.src = "http"
    /\ gw.attempts = <<"tool", "http">>

MalformedClasses == {"empty", "not_dict", "wrong_content_type", "wrong_parsed_type"}

\* C10: an operation that got a malformed tool-call response has attempted
\* the HTTP path by the time it returns.
C10_MalformedFallsThrough ==
    (gw.pc = "done" /\ gw.toolResult \in MalformedClasses)
        => FirstAttempt("http") > 0

NextChat ==
    \/ \E u \in Users, s \in {1} : ChatBegin(u, s)
    \/ ChatLoadIntegration
    \/ ChatCreateAgent
    \/ \E ok \in BOOLEAN : ChatRun(ok)
    \/ \E u \in Users, t \in Tokens, accts \in {{1}} : OAuthCallback(u, t, accts)
    \/ \E u \in Users, a \in {1} : SelectMetaAccount(u, a)

SpecChat == Init /\ [][NextChat]_vars

\* ---------------------------------------------------- account selection
NextIntegration ==
    \/ \E u \in Users, t \in Tokens, accts \in AccountLists : OAuthCallback(u, t, accts)
    \/ \E u \in Users, a \in AccountIds : SelectMetaAccount(u, a)
    \/ \E u \in Users : DisconnectMeta(u)

SpecIntegration == Init /\ [][NextIntegration]_vars

\* ------------------------------------------- history and deletion routes
NextHistory ==
    \/ \E u \in Users, s \in Sessions : ChatBegin(u, s)
    \/ ChatLoadIntegration
    \/ \E u \in Users, s \in Sessions \cup {NoSession}, limit \in Limits :
          GetChatHistory(u, s, limit)
    \/ \E u \in Users, s \in Sessions : DeleteChatSession(u, s)
    \/ \E u \in Users, id \in 1..MaxMsgs : DeleteChatMessage(u, id)
    \/ \E u \in Users : DeleteAllChats(u)
    \/ \E u \in {1}, t \in {1}, accts \in {{1}} : OAuthCallback(u, t, accts)

SpecHistory == Init /\ [][NextHistory]_vars

\* ------------------------------------------- authentication middleware
NextAuth ==
    \E method \in Methods, path \in Paths, header \in Headers :
        \E tok \in (IF header = "bearer" THEN Jwts ELSE {NoJwt}) :
            Dispatch(method, path, header, tok)

SpecAuth == Init /\ [][NextAuth]_vars

\* ---------------------------------------------------- dashboard overview
NextDashboard ==
    \/ \E u \in Users, fail \in StatsFailPoints : GetDashboardOverview(u, fail)
    \/ \E u \in Users, t \in Tokens, accts \in {{1}} : OAuthCallback(u, t, accts)
    \/ \E u \in Users, a \in {1} : SelectMetaAccount(u, a)

SpecDashboard == Init /\ [][NextDashboard]_vars

\* ------------------------------------------------- dashboard arithmetic
NextCalc ==
    \/ \E spend \in Amounts, revenue \in Amounts : CalculateReturns(spend, revenue)
    \/ \E value \in RoasValues : BucketFromMeta(value)
    \/ \E spend \in Amounts, revenue \in Amounts : BucketFromFallback(spend, revenue)
    \/ \E campaigns \in [CampaignIds -> Statuses], budgets \in [CampaignIds -> BudgetCents] :
          AggregateStats(campaigns, budgets)

SpecCalc == Init /\ [][NextCalc]_vars

\* ------------------------------------- the chat route and its sessions
NextMessages ==
    \/ \E u \in Users, s \in Sessions \cup {NoSession} : ChatBegin(u, s)
    \/ ChatLoadIntegration
    \/ ChatCreateAgent
    \/ \E ok \in BOOLEAN : ChatRun(ok)
    \/ \E u \in {1}, t \in {1}, accts \in {{1}} : OAuthCallback(u, t, accts)
    \/ \E u \in {1}, a \in {1} : SelectMetaAccount(u, a)

SpecMessages == Init /\ [][NextMessages]_vars

\* ---------------------------------------------- concurrent OAuth callbacks
NextOAuth ==
    \/ \E k \in Callbacks, u \in Users, t \in Tokens, accts \in AccountLists :
          OAuthSelect(k, u, t, accts)
    \/ \E k \in Callbacks : OAuthCommit(k)

SpecOAuth == Init /\ [][NextOAuth]_vars

\* ------------------------------------------ two users in one session id
NextIsolation ==
    \/ \E u \in Users, s \in {1} : ChatBegin(u, s)
    \/ ChatLoadIntegration
    \/ ChatCreateAgent
    \/ \E ok \in {TRUE} : ChatRun(ok)
    \/ \E u \in Users, s \in {1, NoSession}, limit \in {DefaultLimit} :
          GetChatHistory(u, s, limit)
    \/ \E u \in Users : GetChatSessions(u)
    \/ \E u \in {2}, t \in {1}, accts \in {{1}} : OAuthCallback(u, t, accts)
    \/ \E u \in {2}, a \in {1} : SelectMetaAccount(u, a)

SpecIsolation == Init /\ [][NextIsolation]_vars

\* ------------------------------------------------------ claims: chat route
\* the assistant rows committed for the request in flight
AssistantRowsOfRequest ==
    {m \in messages : /\ m.message_type = "assistant"
                      /\ m.user_id = chatReq.user
                      /\ m.session_id = chatReq.session
                      /\ m.id = chatReq.userMsg.id + 1}

\* C12: once a chat request has ended, by a response or by an exception,
\* the user message it flushed at its start is a row of the chat history.
C12_UserMessageSurvives ==
    chatReq.pc \in {"done", "raised"} => chatReq.userMsg \in messages

\* C13: a chat request of a user with an integration and a selected ad
\* account never leaves the handler by an exception, and once ended it has
\* an assistant row committed: with an error tag when obtaining or running
\* the agent failed, without one on success.
C13_AgentFailureIsAnswered ==
    chatReq.account # NoAccount =>
        /\ chatReq.pc # "raised"
        /\ chatReq.pc = "done" => AssistantRowsOfRequest # {}

\* C14: a chat request of a user without an integration row, or with a row
\* but no selected ad account, ends in the step that loads the integration:
\* it answers success=false with the guidance text of its case, commits
\* that text as an assistant row tagged no_meta_integration or
\* no_selected_ad_account respectively, and leaves the agent, client and
\* token caches and the record of cache calls as they were; only a request
\* with a token and a selected account reaches create_user_agent.
C14_GuidanceStep ==
    (chatReq.pc = "load" /\ chatReq'.pc # "load") =>
        LET u == chatReq.user
            noRow == RowsOf(u) = {}
            noAccount == ~noRow /\ integrations[FirstRow(u)].selected_ad_account = NoAccount
            tag == IF noRow THEN "no_meta_integration" ELSE "no_selected_ad_account"
            text == IF noRow THEN "connect_meta_in_settings"
                    ELSE "select_ad_account_in_settings"
        IN IF noRow \/ noAccount
           THEN /\ chatReq'.pc = "done"
                /\ resp'.route = "chat" /\ resp'.status = 200
                /\ resp'.success = FALSE /\ resp'.reply = text
                /\ messages' = messages \cup
                       {chatReq.userMsg,
                        Row(resp'.message_id, u, chatReq.session, "assistant",
                            text, tag, chatReq.txn)}
                /\ resp'.message_id \notin {m.id : m \in messages} \cup {chatReq.userMsg.id}
                /\ UNCHANGED <<cacheVars, last, integrations>>
           ELSE chatReq'.pc = "agent"

C14_AgentOnlyWhenConnected ==
    chatReq.pc \in {"agent", "run", "raised"} =>
        /\ chatReq.account # NoAccount
        /\ chatReq.token # NoToken
        /\ RowsOf(chatReq.user) # {}

C14_GuidanceWithoutAgent ==
    []C14_AgentOnlyWhenConnected /\ [][C14_GuidanceStep]_vars

C14_Witness ==
    /\ chatReq.pc = "done"
    /\ RowsOf(chatReq.user) # {}
    /\ IntegrationOf(chatReq.user).selected_ad_account = NoAccount
    /\ resp.route = "chat" /\ resp.user = chatReq.user
    /\ resp.success = FALSE /\ resp.reply = "select_ad_account_in_settings"
    /\ \E m \in AssistantRowsOfRequest : m.error = "no_selected_ad_account"
    /\ agentCache[chatReq.user] = NoHandle
    /\ \E v \in Users : agentCache[v] # NoHandle

\* ------------------------------------------ claims: history and deletions
\* a step taken by the history route
HistoryStep == resp'.route = "history" /\ resp' # resp

\* a step taken by the named deletion route
DeleteStep(route) ==
    resp'.route = route /\ (resp' # resp \/ messages' # messages)

\* C15: get_chat_history for a session returns that session's messages
\* oldest first, a request's question before its answer, and returns every
\* stored message of the session when the session holds no more than
\* `limit` messages.
C15_HistoryStepChronological ==
    (HistoryStep /\ resp'.asked \in Sessions) =>
        LET msgs == resp'.msgs
            stored == HistoryRows(resp'.user, resp'.asked)
        IN /\ \A i, j \in 1..Len(msgs) : i < j => msgs[i].id < msgs[j].id
           /\ Cardinality(stored) <= resp'.arg =>
                 stored = {msgs[i] : i \in 1..Len(msgs)}

C15_HistoryChronological == [][C15_HistoryStepChronological]_vars

\* C16: a successful delete_chat_session(user, session) removes exactly
\* the rows of that user in that session; a history query for a session
\* that holds no row of the user answers the empty list with
\* total_messages = 0; and rows only come into a session by a chat request
\* of that user in that session committing.
C16_DeleteSessionStep ==
    /\ (DeleteStep("delete_session") /\ resp'.status = 200) =>
          /\ messages' = {m \in messages :
                            ~(m.user_id = resp'.user /\ m.session_id = resp'.session)}
          /\ \E m \in messages : m.user_id = resp'.user /\ m.session_id = resp'.session
    /\ (HistoryStep /\ HistoryRows(resp'.user, resp'.asked) = {}) =>
          resp'.msgs = <<>> /\ resp'.total = 0
    /\ (messages' \ messages # {}) =>
          /\ resp'.route = "chat"
          /\ \A m \in messages' \ messages :
                m.user_id = chatReq.user /\ m.session_id = chatReq.session

C16_DeletedSessionIsEmpty == [][C16_DeleteSessionStep]_vars

C16_Witness ==
    /\ resp.route = "delete_session" /\ resp.status = 200
    /\ ~ \E m \in messages : m.user_id = resp.user /\ m.session_id = resp.session
    /\ \E m \in messages : m.user_id = resp.user /\ m.session_id # resp.session
    /\ nextMsgId = MaxMsgs + 1

\* C17: a step that removes stored messages is a deletion answered 200
\* and removes only rows of the user who issued it; delete_chat_message on
\* an id that is not a message of the caller, and delete_chat_session on a
\* session in which the caller has no message, answer 404 and remove
\* nothing; a deletion changes no integration row and no cache.
C17_DeleteStep ==
    /\ (messages \ messages' # {}) =>
          /\ resp'.route \in {"delete_message", "delete_session", "delete_all"}
          /\ resp'.status = 200
          /\ \A m \in messages \ messages' : m.user_id = resp'.user
    /\ DeleteStep("delete_message") =>
          IF \E m \in messages : m.id = resp'.arg /\ m.user_id = resp'.user
          THEN /\ resp'.status = 200
               /\ messages' = {m \in messages : m.id # resp'.arg}
          ELSE resp'.status = 404 /\ messages' = messages
    /\ DeleteStep("delete_session") =>
          IF \E m \in messages : m.session_id = resp'.session /\ m.user_id = resp'.user
          THEN resp'.status = 200
          ELSE resp'.status = 404 /\ messages' = messages
    /\ DeleteStep("delete_all") =>
          /\ resp'.status = 200
          /\ messages' = {m \in messages : m.user_id # resp'.user}
    /\ (DeleteStep("delete_message") \/ DeleteStep("delete_session")
          \/ DeleteStep("delete_all")) =>
          UNCHANGED <<integrations, cacheVars, chatReq>>

C17_DeletesAreOwnershipChecked == [][C17_DeleteStep]_vars

C17_Witness ==
    /\ resp.route = "delete_message" /\ resp.status = 404
    /\ \E m \in messages : m.id = resp.arg /\ m.user_id # resp.user
    /\ \E m \in messages : m.user_id = resp.user
    /\ integrations # <<>>

\* ------------------------------------------------ claims: account selection
\* C18: select_meta_account answers 200 and sets selected_ad_account only
\* when the requested id is an id of the stored ad-account list; with a row
\* whose list does not hold the id, the empty list included, it answers 400.
C18_SelectionValidated ==
    (resp.route = "select_account" /\ RowsOf(resp.user) # {}) =>
        LET row == IntegrationOf(resp.user)
        IN IF resp.arg \in row.ad_accounts
           THEN resp.status = 200 /\ row.selected_ad_account = resp.arg
           ELSE resp.status = 400 /\ row.selected_ad_account # resp.arg

\* --------------------------------------- claims: authentication middleware
\* the request carries a decodable token naming a user
HasValidIdentity(r) ==
    /\ r.header = "bearer"
    /\ r.token.sig = "ok"
    /\ IsNumeric(r.token)

\* C19: a request other than OPTIONS to a path outside the public list is
\* answered 401 without reaching the handler when its Authorization header
\* is missing, not a Bearer token, or holds an invalid, expired or
\* identity-less token; otherwise it reaches the handler with
\* request.state.user_id set to the identity of its token.
C19_BearerRequired ==
    (authReq.pc = "done" /\ authReq.method # "OPTIONS" /\ ~IsPublic(authReq.path)) =>
        IF HasValidIdentity(authReq)
        THEN /\ authReq.out.kind = "call_next"
             /\ authReq.out.user_id = IntOf(authReq.token)
        ELSE authReq.out.kind = "response" /\ authReq.out.status = 401

\* --------------------------------------------------- claims: dashboard
\* C20: in every integration state of the user, and whichever upstream call
\* fails, _build_stats returns the seven stat cards and does not raise.
C20_StatsAlwaysReturned ==
    dash.pc = "done" =>
        /\ dash.stats.out = "returned"
        /\ dash.stats.cards = StatCards

\* ---------------------------------------- claims: dashboard arithmetic
\* C21: with spend 0 _calculate_roi returns "0%" and _calculate_roas
\* "0.00x" for every revenue; with spend > 0 the ROI text is
\* (revenue - spend) / spend * 100 to the nearest whole number, "+" in front
\* when that value is >= 0 and "-" when it is negative, so that 1000/1500
\* gives "+50%", 2000/800 "-60%", 500/1000 "+100%" and revenue = spend "+0%".
C21_RoiAndRoasText ==
    calc.op = "calculate" =>
        LET n == (calc.revenue - calc.spend) * 100
        IN /\ calc.spend = 0 => calc.roi = [sign |-> "", digits |-> 0] /\ calc.roas = 0
           /\ calc.spend > 0 =>
                 /\ calc.roi.sign = (IF n >= 0 THEN "+" ELSE "-")
                 /\ 2 * Magnitude(calc.roi.digits * calc.spend - Magnitude(n)) <= calc.spend
           /\ (calc.spend > 0 /\ calc.revenue = calc.spend) =>
                 calc.roi = [sign |-> "+", digits |-> 0]
           /\ (calc.spend = 1000 /\ calc.revenue = 1500) =>
                 calc.roi = [sign |-> "+", digits |-> 50]
           /\ (calc.spend = 2000 /\ calc.revenue = 800) =>
                 calc.roi = [sign |-> "-", digits |-> 60]
           /\ (calc.spend = 500 /\ calc.revenue = 1000) =>
                 calc.roi = [sign |-> "+", digits |-> 100]

C21_Witness ==
    /\ calc.op = "calculate"
    /\ calc.spend = 2000 /\ calc.revenue = 800
    /\ calc.roi = [sign |-> "-", digits |-> 60]
    /\ calc.roas = 40

\* C22: the performance of a campaign is "excellent" for ROAS >= 3.0,
\* "good" for 2.0 <= ROAS < 3.0, "average" for 1.0 <= ROAS < 2.0 and "poor"
\* below 1.0: 3.5 is excellent, 2.1 good, exactly 1.0 average, 0.4 poor.
C22_TierByRoas ==
    calc.op = "bucket" =>
        /\ calc.tier \in {"excellent", "good", "average", "poor"}
        /\ calc.tier = "excellent" <=> calc.roas >= 300
        /\ calc.tier = "good" <=> (200 <= calc.roas /\ calc.roas < 300)
        /\ calc.tier = "average" <=> (100 <= calc.roas /\ calc.roas < 200)
        /\ calc.tier = "poor" <=> calc.roas < 100
        /\ calc.roas = 350 => calc.tier = "excellent"
        /\ calc.roas = 210 => calc.tier = "good"
        /\ calc.roas = 100 => calc.tier = "average"
        /\ calc.roas = 40 => calc.tier = "poor"

C22_Witness ==
    /\ calc.op = "bucket" /\ calc.source = "fallback"
    /\ calc.spend > 0 /\ calc.revenue = calc.spend
    /\ calc.roas = 100 /\ calc.tier = "average"

\* C23: "Active Campaigns" is the number of campaigns with active status
\* and "Active Budget" is the sum of the daily budgets of exactly those
\* campaigns, each budget record matched to its campaign by campaign id.
C23_ActiveCountAndBudget ==
    calc.op = "aggregate" =>
        LET active == {c \in CampaignIds : calc.campaigns[c] \in {"ACTIVE", "active"}}
        IN /\ calc.count = Cardinality(active)
           /\ calc.total = (IF 1 \in active THEN calc.budgets[1] ELSE 0)
                           + (IF 2 \in active THEN calc.budgets[2] ELSE 0)

\* --------------------------------------------- claims: chat context
\* C24: the context of a chat request holds at most 10 messages, all of
\* the requesting user and the request's session, all older than the
\* message just inserted, the most recent of these, oldest first.
C24_ContextWindow ==
    chatReq.pc \in {"agent", "run"} =>
        LET ctx == chatReq.context
            prior == {m \in messages : /\ m.user_id = chatReq.user
                                       /\ m.session_id = chatReq.session
                                       /\ m.id < chatReq.userMsg.id}
        IN /\ Len(ctx) <= 10
           /\ \A i \in 1..Len(ctx) : ctx[i] \in prior
           /\ \A i, j \in 1..Len(ctx) : i < j => ctx[i].id < ctx[j].id
           /\ Cardinality(prior) <= 10 => prior = {ctx[i] : i \in 1..Len(ctx)}

\* ------------------------------------------- claims: base configuration
\* C25: once loaded, the cached base configuration stays the content of
\* the configuration file: no create_user_agent or create_user_client call
\* changes it and no access token is ever stored in it.
C25_BaseConfigImmutable ==
    baseConfigCache.loaded =>
        /\ baseConfigCache = LoadConfigFile(configFile)
        /\ baseConfigCache.token = NoToken

C27_BuiltFromOwnToken ==
    (last.op \in {"create_user_agent", "prewarm_user_agent"} /\ last.built) =>
        /\ last.ret.token = last.token
        /\ ReadConfigToken(tempFile) = last.token

C27_Witness ==
    /\ last.op = "prewarm_user_agent" /\ last.built
    /\ \E v \in Users :
          /\ v # last.user
          /\ agentCache[v] # NoHandle
          /\ agentCache[v].token # last.token
          /\ agentCache[v].id < last.ret.id
    /\ last.ret.token = last.token

\* ------------------------------------------------ claims: chat messages
\* C28: a chat request that returns a ChatResponse has added exactly two
\* rows, a user message followed by an assistant message, both of the
\* requesting user and of the session id in the response (the one the
\* caller supplied, when it supplied one); user_message_id and message_id
\* of the response are the ids of these two rows.
C28_ResponseStep ==
    (resp'.route = "chat" /\ resp'.status = 200 /\ resp' # resp) =>
        /\ messages \subseteq messages'
        /\ Cardinality(messages' \ messages) = 2
        /\ \E q, a \in messages' \ messages :
              /\ q.id = resp'.user_message_id /\ q.message_type = "user"
              /\ a.id = resp'.message_id /\ a.message_type = "assistant"
              /\ q.id < a.id
              /\ q.user_id = chatReq.user /\ a.user_id = chatReq.user
              /\ q.session_id = resp'.session /\ a.session_id = resp'.session
        /\ resp'.user = chatReq.user
        /\ chatReq.asked # NoSession => resp'.session = chatReq.asked

C29_OneRowPerUser ==
    /\ \A u \in Users : Cardinality(RowsOf(u)) <= 1
    /\ last.op = "oauth_callback" =>
          \A i \in RowsOf(last.user) : integrations[i].access_token = last.token

\* ---------------------------------------------- claims: chat isolation
\* C30: the messages get_chat_history returns, the rows get_chat_sessions
\* answers from and the context built inside chat all belong to the
\* requesting user, also when another user has messages under the same
\* session id.
C30_ChatDataPerUser ==
    /\ resp.route \in {"history", "sessions"} =>
          \A i \in 1..Len(resp.msgs) : resp.msgs[i].user_id = resp.user
    /\ chatReq.pc \in {"agent", "run"} =>
          \A i \in 1..Len(chatReq.context) :
             chatReq.context[i].user_id = chatReq.user

\* another user has earlier messages under session 1; the requesting user's
\* chat reaches the agent with a context free of them, and the same user's
\* history of session 1 was answered without them
C30_Witness ==
    /\ chatReq.pc = "agent" /\ chatReq.session = 1
    /\ \E m \in messages : /\ m.session_id = 1 /\ m.user_id # chatReq.user
                           /\ m.id < chatReq.userMsg.id
    /\ resp.route = "history" /\ resp.asked = 1 /\ resp.user = chatReq.user

====
